---- MODULE Spec2Model ----
(***************************************************************************)
(* Model of the attendance-report pipeline of church-assistant:            *)
(*   charts_generator.py  ingestion, aggregation, rollup resolution,       *)
(*                        time series, recency window, personal filter,    *)
(*                        RAG context cache and query answering            *)
(*   bot_server.py        the callers of that pipeline                     *)
(*                                                                         *)
(* Python str values are sequences of one-character atoms.  The Chinese    *)
(* characters of the source are written romanised, one atom per character, *)
(* so that substring tests, stripping and comparison work on characters:   *)
(*   qu bie       = U+5340 U+5225  (the group-label column)                *)
(*   zhou mo ri   = U+9031 U+672B U+65E5  (the week-end-date column)       *)
(*   zong ji      = U+7E3D U+8A08  (total sentinel, also the overall name) *)
(*   he ji        = U+5408 U+8A08  (total sentinel)                        *)
(*   xing ming    = U+59D3 U+540D  (the person-name column)                *)
(*   ri qi        = U+65E5 U+671F  (the date column of the personal table) *)
(***************************************************************************)
EXTENDS Integers, Sequences, FiniteSets, TLC

VARIABLES
    reports_summary,     \* the files in REPORTS_DIR_SUMMARY (a set of excel files)
    reports_excel,       \* the files in REPORTS_DIR_EXCEL
    GLOBAL_RAG_CONTEXT,  \* charts_generator.GLOBAL_RAG_CONTEXT
    model,               \* charts_generator.model: "gemini" or "None"
    rebuild,             \* per thread, its call of update_global_rag_context: where it
                         \* is, and its local new_context
    last                 \* the most recent event: a file written, or a call with its result

vars == <<reports_summary, reports_excel, GLOBAL_RAG_CONTEXT, model, rebuild, last>>

\* the threads in which update_global_rag_context is called: the thread of
\* the BackgroundScheduler, which runs auto_update_and_push, and the main
\* thread, which runs the __main__ block of bot_server.py
Threads == {"scheduler", "main"}

\* no call of update_global_rag_context has begun; wrote is the place of the
\* call's assignment among the assignments made (0: none)
NoRebuild == [t \in Threads |-> [pc |-> "idle", new_context |-> <<>>, failed |-> FALSE, wrote |-> 0]]

-----------------------------------------------------------------------------
(* Bounds of the model *)

\* most files held by the summary directory at once
MaxSummaryFiles == 3
\* most files held by the personal-detail directory at once
MaxPersonalFiles == 3
\* the recency window sizes tried are 1..MaxWeeks
MaxWeeks == 3

-----------------------------------------------------------------------------
(* Text *)

RECURSIVE SeqSum(_)
SeqSum(s) == IF s = <<>> THEN 0 ELSE Head(s) + SeqSum(Tail(s))

\* F applied to the value of e: a local name for a value computed once
LetIn(e, F(_)) == CHOOSE y \in {F(x) : x \in {e}} : TRUE

\* s[k], or the empty atom beyond the ends
Ch(s, k) == IF k \in 1..Len(s) THEN s[k] ELSE ""

\* Python: sub in s
Contains(sub, s) ==
    \E i \in 1..(Len(s) - Len(sub) + 1) : SubSeq(s, i, i + Len(sub) - 1) = sub

\* Python: s.startswith(p)
StartsWith(s, p) == Len(s) >= Len(p) /\ SubSeq(s, 1, Len(p)) = p

\* Python: str.strip() (the only whitespace of the model is the blank)
Strip(s) ==
    LET keep == {i \in 1..Len(s) : s[i] # " "}
    IN  IF keep = {} THEN <<>>
        ELSE LET lo == CHOOSE i \in keep : \A j \in keep : i <= j
                 hi == CHOOSE i \in keep : \A j \in keep : j <= i
             IN  SubSeq(s, lo, hi)

\* code points of the atoms, for the orderings sorted() and sort_values() use
CodePoint ==
    " " :> 32 @@ "(" :> 40 @@ ")" :> 41 @@ "-" :> 45 @@ "." :> 46 @@ "/" :> 47
    @@ "0" :> 48 @@ "1" :> 49 @@ "2" :> 50 @@ "3" :> 51 @@ "4" :> 52
    @@ "5" :> 53 @@ "6" :> 54 @@ "7" :> 55 @@ "8" :> 56 @@ "9" :> 57
    @@ "_" :> 95 @@ "a" :> 97 @@ "c" :> 99 @@ "d" :> 100 @@ "e" :> 101
    @@ "l" :> 108 @@ "m" :> 109 @@ "n" :> 110 @@ "o" :> 111 @@ "r" :> 114 @@ "s" :> 115
    @@ "t" :> 116 @@ "u" :> 117 @@ "v" :> 118 @@ "x" :> 120 @@ "y" :> 121
    @@ "yi" :> 19968 @@ "zhong" :> 20013 @@ "er" :> 20108 @@ "he" :> 21512
    @@ "qu" :> 21312 @@ "bie" :> 21029 @@ "da" :> 22823 @@ "xiao" :> 23567
    @@ "nian" :> 24180 @@ "wang" :> 29579 @@ "li" :> 26446 @@ "chen" :> 38515
    @@ "zong" :> 32317 @@ "ji" :> 35336 @@ "qing" :> 38738 @@ "gao" :> 39640
    @@ "guo" :> 22283 @@ "san" :> 19977

\* Python: a < b on str (lexicographic by code point)
RECURSIVE TextLess(_, _)
TextLess(a, b) ==
    IF b = <<>> THEN FALSE
    ELSE IF a = <<>> THEN TRUE
    ELSE IF Head(a) # Head(b) THEN CodePoint[Head(a)] < CodePoint[Head(b)]
    ELSE TextLess(Tail(a), Tail(b))

Digits == <<"0", "1", "2", "3", "4", "5", "6", "7", "8", "9">>

IsDigit(c) == \E i \in 1..10 : Digits[i] = c

DigitVal(c) == (CHOOSE i \in 1..10 : Digits[i] = c) - 1

\* the decimal value of a run of digits
RECURSIVE DecVal(_)
DecVal(s) == IF s = <<>> THEN 0 ELSE (DecVal(SubSeq(s, 1, Len(s) - 1)) * 10) + DigitVal(s[Len(s)])

\* n written with two digits (strftime's %m and %d)
TwoDigits(n) == <<Digits[((n \div 10) % 10) + 1], Digits[(n % 10) + 1]>>

\* n written with four digits (strftime's %Y)
FourDigits(n) == TwoDigits(n \div 100) \o TwoDigits(n % 100)

-----------------------------------------------------------------------------
(* Dates.  A datetime at midnight is the number year*10000 + month*100 + day, *)
(* which orders as the datetime does.  NoDate is Python's None.                *)

NoDate == 0

DaysInMonth(y, m) ==
    IF m \in {4, 6, 9, 11} THEN 30
    ELSE IF m = 2
         THEN IF ((y % 4) = 0 /\ (y % 100) # 0) \/ (y % 400) = 0 THEN 29 ELSE 28
         ELSE 31

\* datetime.strptime(text, "%Y-%m-%d") on a text the regex matched:
\* the date, or NoDate where strptime raises ValueError
Strptime(y, m, d) ==
    IF y >= 1 /\ m \in 1..12 /\ d >= 1 /\ d <= DaysInMonth(y, m)
    THEN (y * 10000) + (m * 100) + d
    ELSE NoDate

\* the match of (\d{4})-(\d{1,2})-(\d{1,2}) that starts at position i, if any:
\* the month takes two digits when a hyphen follows them, else one digit
\* followed by a hyphen; the day takes two digits when it can (greedy)
MatchAt(s, i) ==
    LET yearOk == \A k \in 0..3 : IsDigit(Ch(s, i + k))
        mlen == IF IsDigit(Ch(s, i + 5)) /\ IsDigit(Ch(s, i + 6)) /\ Ch(s, i + 7) = "-" THEN 2
                ELSE IF IsDigit(Ch(s, i + 5)) /\ Ch(s, i + 6) = "-" THEN 1
                ELSE 0
        dpos == i + 5 + mlen + 1
        dlen == IF IsDigit(Ch(s, dpos)) /\ IsDigit(Ch(s, dpos + 1)) THEN 2
                ELSE IF IsDigit(Ch(s, dpos)) THEN 1
                ELSE 0
    IN  IF yearOk /\ Ch(s, i + 4) = "-" /\ mlen > 0 /\ dlen > 0
        THEN [ok |-> TRUE,
              y |-> DecVal(SubSeq(s, i, i + 3)),
              m |-> DecVal(SubSeq(s, i + 5, i + 4 + mlen)),
              d |-> DecVal(SubSeq(s, dpos, dpos + dlen - 1))]
        ELSE [ok |-> FALSE, y |-> 0, m |-> 0, d |-> 0]

parse_week_end_date_from_filename(filename) ==
    LetIn({i \in 1..Len(filename) : MatchAt(filename, i).ok}, LAMBDA hits :
        IF hits = {} THEN NoDate
        ELSE LetIn(MatchAt(filename, CHOOSE i \in hits : \A j \in hits : i <= j), LAMBDA g :
                Strptime(g.y, g.m, g.d)))

\* dt.strftime('%Y/%m/%d')
StrftimeSlash(dt) ==
    FourDigits(dt \div 10000) \o <<"/">> \o TwoDigits((dt \div 100) % 100)
        \o <<"/">> \o TwoDigits(dt % 100)

-----------------------------------------------------------------------------
(* Cells and tables.  A cell is a number, a text, NaN (an empty cell) or a    *)
(* datetime.  A DataFrame is its column names and its rows, each row holding  *)
(* one cell per column; the value None has the same shape with kind "None".   *)

Num(n) == [t |-> "num", n |-> n, s |-> <<>>]
Str(s) == [t |-> "str", n |-> 0, s |-> s]
NaN == [t |-> "nan", n |-> 0, s |-> <<>>]
Date(d) == [t |-> "date", n |-> d, s |-> <<>>]

DataFrame(columns, rows) == [kind |-> "DataFrame", columns |-> columns, rows |-> rows]
None == [kind |-> "None", columns |-> <<>>, rows |-> <<>>]
\* a raised RuntimeError, as the value of the call that raised it
RuntimeError == [kind |-> "RuntimeError", columns |-> <<>>, rows |-> <<>>]

\* a raised KeyError (a column the frame does not have), likewise
KeyError == [kind |-> "KeyError", columns |-> <<>>, rows |-> <<>>]

\* pd.DataFrame()
EmptyFrame == DataFrame(<<>>, <<>>)

\* a part of a context text that is a line of fixed text (a context text is
\* the sequence of its parts)
Line(text) == [text |-> text, table |-> None]

\* the text GLOBAL_RAG_CONTEXT has when the module is imported
Placeholder == <<Line("initializing")>>

\* df.empty
IsEmpty(df) == df.rows = <<>> \/ df.columns = <<>>

HasColumn(df, c) == \E i \in 1..Len(df.columns) : df.columns[i] = c

ColIndex(df, c) ==
    CHOOSE i \in 1..Len(df.columns) :
        df.columns[i] = c /\ \A j \in 1..(i - 1) : df.columns[j] # c

\* df[c].iloc[r]
CellAt(df, r, c) == df.rows[r][ColIndex(df, c)]

\* the members of s at the positions in K, in their order
KeepIdx(s, K) ==
    LET F[i \in 0..Len(s)] ==
            IF i = 0 THEN <<>>
            ELSE IF i \in K THEN Append(F[i - 1], s[i]) ELSE F[i - 1]
    IN  F[Len(s)]

\* s sorted by Less, members that Less does not order staying in their order
\* (the frames of the model are far below the size where numpy's sort stops
\* being an insertion sort)
StableSort(s, Less(_, _)) ==
    LET Before(i, j) == Less(s[i], s[j]) \/ (~Less(s[j], s[i]) /\ i < j)
        pos(i) == 1 + Cardinality({j \in 1..Len(s) : Before(j, i)})
    IN  [p \in 1..Len(s) |-> s[CHOOSE i \in 1..Len(s) : pos(i) = p]]

\* df[cols]
SelectColumns(df, cols) ==
    DataFrame(cols,
        [r \in 1..Len(df.rows) |-> [j \in 1..Len(cols) |-> CellAt(df, r, cols[j])]])

\* df[c] = cell  (a scalar for every row; a new column goes last)
SetColumn(df, c, cell) ==
    IF HasColumn(df, c)
    THEN [df EXCEPT !.rows = [r \in 1..Len(df.rows) |->
                                [df.rows[r] EXCEPT ![ColIndex(df, c)] = cell]]]
    ELSE DataFrame(Append(df.columns, c),
                   [r \in 1..Len(df.rows) |-> Append(df.rows[r], cell)])

\* the column names of the frames, each once, in the order they first appear
RECURSIVE UnionColumns(_)
UnionColumns(frames) ==
    IF frames = <<>> THEN <<>>
    ELSE LET rest == UnionColumns(SubSeq(frames, 1, Len(frames) - 1))
             f == frames[Len(frames)]
             fresh == {i \in 1..Len(f.columns) :
                         \A j \in 1..Len(rest) : rest[j] # f.columns[i]}
         IN  rest \o KeepIdx(f.columns, fresh)

RECURSIVE ConcatRows(_, _)
ConcatRows(frames, cols) ==
    IF frames = <<>> THEN <<>>
    ELSE LET f == Head(frames)
         IN  [r \in 1..Len(f.rows) |->
                [j \in 1..Len(cols) |->
                    IF HasColumn(f, cols[j]) THEN CellAt(f, r, cols[j]) ELSE NaN]]
             \o ConcatRows(Tail(frames), cols)

\* pd.concat(frames, ignore_index=True): a column a frame lacks is NaN in its rows
Concat(frames) ==
    LetIn(UnionColumns(frames), LAMBDA cols : DataFrame(cols, ConcatRows(frames, cols)))

\* pd.to_numeric(cell, errors="coerce")
ToNumeric(cell) ==
    IF cell.t = "num" THEN cell
    ELSE IF cell.t = "str" /\ cell.s # <<>> /\ \A i \in 1..Len(cell.s) : IsDigit(cell.s[i])
         THEN Num(DecVal(cell.s))
         ELSE NaN

\* .fillna(0)
FillNa0(cell) == IF cell.t = "nan" THEN Num(0) ELSE cell

-----------------------------------------------------------------------------
(* Configuration of charts_generator.py *)

COL_GROUP == <<"qu", "bie">>
COL_WEEK == <<"zhou", "mo", "ri">>
COL_TOTAL_VISITS == <<"zong", "chu", "fang">>
M_SUNDAY == <<"zhu", "ri">>
M_PRAYER == <<"dao", "gao">>
M_HOME_OUT == <<"jia", "chu", "fang">>
M_HOME_IN == <<"jia", "shou", "fang">>
M_GROUP == <<"xiao", "pai">>
M_MORNING == <<"chen", "xing">>
M_GOSPEL == <<"fu", "chu", "fang">>

NUMERIC_COLUMNS_CANDIDATES ==
    <<M_SUNDAY, M_PRAYER, M_HOME_OUT, M_HOME_IN, M_GROUP, M_MORNING, M_GOSPEL>>

G_HS1 == <<"gao", "zhong", "yi", "qu">>
G_HS2 == <<"gao", "zhong", "er", "qu">>
G_YA1 == <<"qing", "nian", "yi", "qu">>
G_YA2 == <<"qing", "nian", "er", "qu">>
G_YA3 == <<"qing", "nian", "san", "qu">>
G_JH1 == <<"guo", "zhong", "yi", "qu">>
G_JH2 == <<"guo", "zhong", "er", "qu">>
R_HS == <<"gao", "zhong", "da", "qu">>
R_YA == <<"qing", "nian", "da", "qu">>
R_JH == <<"guo", "zhong", "da", "qu">>
OVERALL == <<"zong", "ji">>
SUBTOTAL == <<"he", "ji">>

REGION_MAPPING ==
    R_HS :> <<G_HS1, G_HS2>> @@ R_YA :> <<G_YA1, G_YA2, G_YA3>> @@ R_JH :> <<G_JH1, G_JH2>>

-----------------------------------------------------------------------------
(* Ingestion of one summary report *)

\* a file of a directory; sheet is what pd.read_excel gives when the file opens
ExcelFile(name, readable, columns, rows) ==
    [name |-> name, readable |-> readable, sheet |-> DataFrame(columns, rows)]

_clean_table_headers(df) ==
    [df EXCEPT !.columns = [i \in 1..Len(df.columns) |-> Strip(df.columns[i])]]

CoerceCell(cell) == FillNa0(ToNumeric(cell))

\* every cell of a candidate column coerced, the other cells as they are
_coerce_numeric_columns(df) ==
    [df EXCEPT !.rows =
        [r \in 1..Len(df.rows) |->
            [j \in 1..Len(df.columns) |->
                IF \E k \in 1..Len(NUMERIC_COLUMNS_CANDIDATES) :
                        NUMERIC_COLUMNS_CANDIDATES[k] = df.columns[j]
                THEN CoerceCell(df.rows[r][j])
                ELSE df.rows[r][j]]]]

\* the candidates that are columns of df, in the candidates' order
MetricColumns(df) ==
    KeepIdx(NUMERIC_COLUMNS_CANDIDATES,
        {i \in 1..Len(NUMERIC_COLUMNS_CANDIDATES) : HasColumn(df, NUMERIC_COLUMNS_CANDIDATES[i])})

\* a variant that keeps the date column of a sheet that has one
NormalizeReport_keep_sheet_date(dataframe, week_end_date) ==
    IF ~HasColumn(dataframe, COL_GROUP) THEN None
    ELSE LetIn(_coerce_numeric_columns(dataframe), LAMBDA coerced :
         LetIn(IF HasColumn(coerced, COL_WEEK) THEN coerced
               ELSE SetColumn(coerced, COL_WEEK, Date(week_end_date)), LAMBDA dated :
         LetIn(<<COL_GROUP, COL_WEEK>> \o MetricColumns(dated), LAMBDA keep_columns :
            SelectColumns(dated, keep_columns))))

\* the report once its sheet is read and its headers are cleaned
NormalizeReport(dataframe, week_end_date) ==
    IF ~HasColumn(dataframe, COL_GROUP) THEN None
    ELSE LetIn(_coerce_numeric_columns(dataframe), LAMBDA coerced :
         LetIn(SetColumn(coerced, COL_WEEK, Date(week_end_date)), LAMBDA dated :
         LetIn(<<COL_GROUP, COL_WEEK>> \o MetricColumns(dated), LAMBDA keep_columns :
            SelectColumns(dated, keep_columns))))

read_single_report(file) ==
    LetIn(parse_week_end_date_from_filename(file.name), LAMBDA week_end_date :
        IF week_end_date = NoDate THEN None
        ELSE IF ~file.readable THEN None
        ELSE LetIn(_clean_table_headers(file.sheet), LAMBDA dataframe :
                NormalizeReport(dataframe, week_end_date)))

\* a variant that knows the overall label only, and only as the whole text
_is_summary_text_exact(value) ==
    IF value.t # "str" THEN FALSE
    ELSE value.s = OVERALL

_is_summary_text(value) ==
    IF value.t # "str" THEN FALSE
    ELSE Contains(OVERALL, value.s) \/ Contains(SUBTOTAL, value.s)

_remove_summary_rows(df) ==
    IF ~HasColumn(df, COL_GROUP) THEN df
    ELSE [df EXCEPT !.rows =
            KeepIdx(df.rows, {r \in 1..Len(df.rows) : ~_is_summary_text(CellAt(df, r, COL_GROUP))})]

RowDateLess(df, a, b) == a[ColIndex(df, COL_WEEK)].n < b[ColIndex(df, COL_WEEK)].n

\* df.sort_values(COL_WEEK)
SortByWeek(df) ==
    LET Less(a, b) == RowDateLess(df, a, b)
    IN  [df EXCEPT !.rows = StableSort(df.rows, Less)]

\* glob.glob(os.path.join(dir, "*.xls*")): the names holding ".xls"
GlobXls(dir) == {f \in dir : Contains(<<".", "x", "l", "s">>, f.name)}

\* sorted(paths): the files in the order of their names
SortedByName(files) ==
    LET pos(f) == 1 + Cardinality({g \in files : TextLess(g.name, f.name)})
    IN  [p \in 1..Cardinality(files) |-> CHOOSE f \in files : pos(f) = p]

\* a variant that gives up on the first report that cannot be used
ReadAll_fail_fast(file_paths) ==
    LetIn([i \in 1..Len(file_paths) |-> read_single_report(file_paths[i])], LAMBDA reports :
        IF \E i \in 1..Len(reports) : reports[i].kind = "None" THEN <<>> ELSE reports)

\* the reports read from the paths in order, those that gave None left out
ReadAll(file_paths) ==
    LetIn([i \in 1..Len(file_paths) |-> read_single_report(file_paths[i])], LAMBDA reports :
        KeepIdx(reports, {i \in 1..Len(reports) : reports[i].kind # "None"}))

\* a variant that also raises when no row survives the removal of the totals
aggregate_reports_raise_on_empty(reports_dir) ==
    LetIn(SortedByName(GlobXls(reports_dir)), LAMBDA file_paths :
        IF file_paths = <<>> THEN RuntimeError
        ELSE LetIn(ReadAll(file_paths), LAMBDA combined :
                IF combined = <<>> THEN RuntimeError
                ELSE LetIn(Concat(combined), LAMBDA all_data :
                     LetIn(_remove_summary_rows(all_data), LAMBDA kept :
                        IF kept.rows = <<>> THEN RuntimeError ELSE SortByWeek(kept)))))

aggregate_reports(reports_dir) ==
    LetIn(SortedByName(GlobXls(reports_dir)), LAMBDA file_paths :
        IF file_paths = <<>> THEN RuntimeError
        ELSE LetIn(ReadAll(file_paths), LAMBDA combined :
                IF combined = <<>> THEN RuntimeError
                ELSE LetIn(Concat(combined), LAMBDA all_data :
                     LetIn(_remove_summary_rows(all_data), LAMBDA kept :
                        SortByWeek(kept)))))

-----------------------------------------------------------------------------
(* Rollup resolution, time series and charts *)

\* the value a cell adds to a sum: groupby(...).sum() skips NaN
CellValue(cell) == IF cell.t = "num" THEN cell.n ELSE 0

\* the sum of column c over the rows of df whose week is d, row after row
GroupSum(df, d, c) ==
    LET F[i \in 0..Len(df.rows)] ==
            IF i = 0 THEN 0
            ELSE IF CellAt(df, i, COL_WEEK).n = d
                 THEN F[i - 1] + CellValue(CellAt(df, i, c))
                 ELSE F[i - 1]
    IN  F[Len(df.rows)]

\* the distinct weeks of df, ascending
WeeksOf(df) ==
    LET ds == {CellAt(df, r, COL_WEEK).n : r \in 1..Len(df.rows)}
        pos(d) == 1 + Cardinality({e \in ds : e < d})
    IN  [p \in 1..Cardinality(ds) |-> CHOOSE d \in ds : pos(d) = p]

\* a variant that does not narrow the rows to the groups of a cluster
ResolveRegion_no_cluster_filter(all_reports, region_name) ==
    IF region_name = OVERALL \/ region_name \in DOMAIN REGION_MAPPING THEN all_reports
    ELSE [all_reports EXCEPT !.rows = KeepIdx(all_reports.rows,
                 {r \in 1..Len(all_reports.rows) :
                     CellAt(all_reports, r, COL_GROUP) = Str(region_name)})]

\* the rows of all_reports the name resolves to
ResolveRegion(all_reports, region_name) ==
    IF region_name = OVERALL THEN all_reports
    ELSE IF region_name \in DOMAIN REGION_MAPPING
         THEN LET subdistricts == REGION_MAPPING[region_name]
              IN  [all_reports EXCEPT !.rows = KeepIdx(all_reports.rows,
                      {r \in 1..Len(all_reports.rows) :
                          \E k \in 1..Len(subdistricts) :
                              CellAt(all_reports, r, COL_GROUP) = Str(subdistricts[k])})]
         ELSE [all_reports EXCEPT !.rows = KeepIdx(all_reports.rows,
                      {r \in 1..Len(all_reports.rows) :
                          CellAt(all_reports, r, COL_GROUP) = Str(region_name)})]

\* region_df.groupby(COL_WEEK)[aggregation_columns].sum().sort_index(),
\* with the total-visits column added: a frame whose first column is its
\* index, the week
SumByWeek(region_df, aggregation_columns, weeks) ==
    DataFrame(<<COL_WEEK>> \o aggregation_columns \o <<COL_TOTAL_VISITS>>,
        [w \in 1..Len(weeks) |->
            <<Date(weeks[w])>>
            \o [j \in 1..Len(aggregation_columns) |->
                    Num(GroupSum(region_df, weeks[w], aggregation_columns[j]))]
            \o <<Num((IF HasColumn(region_df, M_GOSPEL)
                       THEN GroupSum(region_df, weeks[w], M_GOSPEL) ELSE 0)
                     + (IF HasColumn(region_df, M_HOME_OUT)
                        THEN GroupSum(region_df, weeks[w], M_HOME_OUT) ELSE 0))>>])

\* a variant that gives a name without rows a series of zeros over the weeks
\* of the corpus
build_region_timeseries_zero_filled(all_reports, region_name) ==
    IF region_name # OVERALL /\ ~HasColumn(all_reports, COL_GROUP) THEN KeyError
    ELSE LetIn(ResolveRegion(all_reports, region_name), LAMBDA region_df :
        IF ~HasColumn(all_reports, COL_WEEK) THEN KeyError
        ELSE LetIn(MetricColumns(all_reports), LAMBDA aggregation_columns :
             LetIn(WeeksOf(all_reports), LAMBDA weeks :
                SumByWeek(region_df, aggregation_columns, weeks))))

\* a variant that gives a name with rows an entry for every week of the
\* corpus, a zero where the name has no row
build_region_timeseries_corpus_weeks(all_reports, region_name) ==
    IF region_name # OVERALL /\ ~HasColumn(all_reports, COL_GROUP) THEN KeyError
    ELSE LetIn(ResolveRegion(all_reports, region_name), LAMBDA region_df :
        IF IsEmpty(region_df) THEN EmptyFrame
        ELSE IF ~HasColumn(region_df, COL_WEEK) THEN KeyError
        ELSE LetIn(MetricColumns(region_df), LAMBDA aggregation_columns :
             LetIn(WeeksOf(all_reports), LAMBDA weeks :
                SumByWeek(region_df, aggregation_columns, weeks))))

build_region_timeseries(all_reports, region_name) ==
    IF region_name # OVERALL /\ ~HasColumn(all_reports, COL_GROUP) THEN KeyError
    ELSE LetIn(ResolveRegion(all_reports, region_name), LAMBDA region_df :
        IF IsEmpty(region_df) THEN EmptyFrame
        ELSE IF ~HasColumn(region_df, COL_WEEK) THEN KeyError
        ELSE LetIn(MetricColumns(region_df), LAMBDA aggregation_columns :
             LetIn(WeeksOf(region_df), LAMBDA weeks :
                SumByWeek(region_df, aggregation_columns, weeks))))

\* plot_attendance and plot_burden keep the last five weeks
PLOT_TAIL_WEEKS == 5

\* ts.tail(n)
TailRows(ts, n) ==
    [ts EXCEPT !.rows = SubSeq(ts.rows, IF Len(ts.rows) > n THEN Len(ts.rows) - n + 1 ELSE 1,
                               Len(ts.rows))]

\* ts[c].sum()
ColumnSum(ts, c) == SeqSum([r \in 1..Len(ts.rows) |-> CellValue(CellAt(ts, r, c))])

\* ts.sum().sum(): every column but the index
FrameSum(ts) ==
    SeqSum([j \in 1..(Len(ts.columns) - 1) |-> ColumnSum(ts, ts.columns[j + 1])])

\* whether a plot function saves its chart: it has data in the last weeks and
\* one of its columns is in the series with a positive sum
Plots(ts0, columns_to_plot) ==
    \E ts \in {TailRows(ts0, PLOT_TAIL_WEEKS)} :
        /\ ~(IsEmpty(ts) \/ FrameSum(ts) = 0)
        /\ \E c \in columns_to_plot : HasColumn(ts, c) /\ ColumnSum(ts, c) > 0

plot_attendance(ts) == Plots(ts, {M_SUNDAY, M_GROUP, M_MORNING})

plot_burden(ts) == Plots(ts, {M_PRAYER, COL_TOTAL_VISITS, M_HOME_IN})

\* generate_region_charts(all_reports, region_name, output_dir): the series it
\* builds, the charts it writes for the name, and whether it raised
generate_region_charts(all_reports, region_name) ==
    LetIn(build_region_timeseries(all_reports, region_name), LAMBDA ts :
        [ts |-> ts,
         raised |-> ts.kind = "KeyError",
         charts |-> IF ts.kind = "KeyError" \/ IsEmpty(ts) THEN {}
                    ELSE (IF plot_attendance(ts) THEN {"attendance"} ELSE {})
                         \cup (IF plot_burden(ts) THEN {"burden"} ELSE {})])

-----------------------------------------------------------------------------
(* Recency window over the summary corpus *)

\* a variant that takes the n smallest
MostRecent_oldest(ds, n) == {d \in ds : Cardinality({e \in ds : e < d}) < n}

\* the n largest members of the set of dates ds
MostRecent(ds, n) == {d \in ds : Cardinality({e \in ds : e > d}) < n}

\* the rows of df_all whose week is one of the `weeks` most recent, by week
RecentRows(df_all, weeks) ==
    LetIn({CellAt(df_all, r, COL_WEEK).n : r \in 1..Len(df_all.rows)}, LAMBDA unique_dates :
    LetIn(MostRecent(unique_dates, weeks), LAMBDA recent_dates :
    LetIn([df_all EXCEPT !.rows = KeepIdx(df_all.rows,
            {r \in 1..Len(df_all.rows) : CellAt(df_all, r, COL_WEEK).n \in recent_dates})],
          LAMBDA df_recent : SortByWeek(df_recent))))

_load_recent_summary_data(reports_dir_summary, weeks) ==
    LetIn(aggregate_reports(reports_dir_summary), LAMBDA df_all :
        IF df_all.kind = "RuntimeError" THEN None
        ELSE IF IsEmpty(df_all) THEN None
        ELSE RecentRows(df_all, weeks))

-----------------------------------------------------------------------------
(* The files the directories may hold *)

XLSX == <<".", "x", "l", "s", "x">>
XLS == <<".", "x", "l", "s">>
CSV == <<".", "c", "s", "v">>
D_1123 == <<"2", "0", "2", "5", "-", "1", "1", "-", "2", "3">>
D_1130 == <<"2", "0", "2", "5", "-", "1", "1", "-", "3", "0">>
D_1207 == <<"2", "0", "2", "5", "-", "1", "2", "-", "0", "7">>
D_1214 == <<"2", "0", "2", "5", "-", "1", "2", "-", "1", "4">>
D_1221 == <<"2", "0", "2", "5", "-", "1", "2", "-", "2", "1">>
D_1228 == <<"2", "0", "2", "5", "-", "1", "2", "-", "2", "8">>
D_1301 == <<"2", "0", "2", "5", "-", "1", "3", "-", "0", "1">>
SUMMARY_PREFIX == <<"s", "u", "m", "m", "a", "r", "y", "_">>
NOTES == <<"n", "o", "t", "e", "s">>

\* week 1: three groups and a pre-summed total row
S_W1 ==
    ExcelFile(SUMMARY_PREFIX \o D_1130 \o XLSX, TRUE,
        <<COL_GROUP, M_SUNDAY, M_HOME_OUT, M_GOSPEL>>,
        <<  <<Str(G_HS1), Num(5), Num(1), Num(2)>>,
            <<Str(G_HS2), Num(2), Num(0), Num(1)>>,
            <<Str(G_YA1), Num(4), Num(1), Num(0)>>,
            <<Str(OVERALL), Num(11), Num(2), Num(3)>> >>)

\* week 2: headers with blanks around them, a numeric text, a non-numeric
\* text and an empty cell, and a subtotal row
S_W2 ==
    ExcelFile(SUMMARY_PREFIX \o D_1207 \o XLSX, TRUE,
        << <<" ">> \o COL_GROUP, M_SUNDAY \o <<" ">>, M_PRAYER >>,
        <<  <<Str(G_HS1), Num(0), Str(<<"3">>)>>,
            <<Str(G_HS2), Num(2), Str(<<"x">>)>>,
            <<Str(G_YA1), NaN, Num(1)>>,
            <<Str(SUBTOTAL), Num(2), Num(4)>> >>)

\* week 3: one metric only, a total row of a cluster, a row with no label
S_W3 ==
    ExcelFile(SUMMARY_PREFIX \o D_1214 \o XLSX, TRUE,
        <<COL_GROUP, M_SUNDAY>>,
        <<  <<Str(G_HS1), Num(3)>>,
            <<Str(G_HS2), Num(2)>>,
            <<Str(<<"gao", "zhong">> \o OVERALL), Num(5)>>,
            <<NaN, Num(1)>> >>)

\* a second file of week 3 (a downloaded copy), listing one group again; its
\* sheet has a date column of its own, holding the date of week 2
S_W3B ==
    ExcelFile(SUMMARY_PREFIX \o D_1214 \o <<"(", "1", ")">> \o XLSX, TRUE,
        <<COL_GROUP, COL_WEEK, M_SUNDAY, M_GOSPEL>>,
        <<  <<Str(G_HS1), Date(20251207), Num(1), Num(1)>>,
            <<Str(G_YA2), Date(20251207), Num(2), Num(0)>> >>)

\* week 4: every row is a pre-summed total
S_TOTALS ==
    ExcelFile(SUMMARY_PREFIX \o D_1221 \o XLSX, TRUE,
        <<COL_GROUP, M_SUNDAY>>,
        <<  <<Str(OVERALL), Num(9)>>,
            <<Str(SUBTOTAL), Num(9)>> >>)

\* no date in the name
S_NODATE ==
    ExcelFile(NOTES \o XLSX, TRUE,
        <<COL_GROUP, M_SUNDAY>>,
        <<  <<Str(G_HS1), Num(7)>> >>)

\* a name whose date does not exist
S_BADDATE ==
    ExcelFile(SUMMARY_PREFIX \o D_1301 \o XLSX, TRUE,
        <<COL_GROUP, M_SUNDAY>>,
        <<  <<Str(G_HS2), Num(7)>> >>)

\* a file that does not open (an old-format workbook, which openpyxl rejects)
S_UNREADABLE ==
    ExcelFile(SUMMARY_PREFIX \o D_1228 \o XLS, FALSE,
        <<COL_GROUP, M_SUNDAY>>,
        <<  <<Str(G_HS1), Num(7)>> >>)

\* no group-label column
S_NOGROUP ==
    ExcelFile(SUMMARY_PREFIX \o D_1123 \o XLSX, TRUE,
        << <<"qu">>, M_SUNDAY>>,
        <<  <<Str(G_HS1), Num(7)>> >>)

\* not an excel file: the glob does not see it
S_CSV ==
    ExcelFile(SUMMARY_PREFIX \o D_1207 \o CSV, TRUE,
        <<COL_GROUP, M_SUNDAY>>,
        <<  <<Str(G_HS1), Num(7)>> >>)

SummaryCatalog ==
    {S_W1, S_W2, S_W3, S_W3B, S_TOTALS, S_NODATE, S_BADDATE, S_UNREADABLE, S_NOGROUP, S_CSV}

\* the names asked of the charts: the overall name, the clusters, groups,
\* a sentinel and names that nothing carries
RegionNames ==
    {OVERALL, R_HS, R_YA, R_JH, G_HS1, G_YA1, SUBTOTAL, <<"gao", "zhong", "san", "qu">>,
     <<"gao", "zhong">>}

-----------------------------------------------------------------------------
(* Operations on the summary directory *)

\* church_api.main() saves a report into the summary directory
WriteSummaryFile(catalog) ==
    \E f \in catalog \ reports_summary :
        /\ Cardinality(reports_summary) < MaxSummaryFiles
        /\ reports_summary' = reports_summary \cup {f}
        /\ last' = [op |-> "write_summary"]
        /\ UNCHANGED <<reports_excel, GLOBAL_RAG_CONTEXT, model, rebuild>>

\* a call of aggregate_reports(REPORTS_DIR_SUMMARY)
AggregateReports ==
    \E out \in {aggregate_reports(reports_summary)} :
    /\ last' = [op |-> "aggregate_reports", out |-> out]
    /\ UNCHANGED <<reports_summary, reports_excel, GLOBAL_RAG_CONTEXT, model, rebuild>>

\* df_reports = aggregate_reports(...); generate_region_charts(df_reports, name, ...)
\* (bot_server.py, handle_message and auto_update_and_push; an error of
\* aggregate_reports ends the handler before any chart: see AggregateReports)
GenerateRegionCharts ==
    \E df_reports \in {aggregate_reports(reports_summary)} :
        /\ df_reports.kind = "DataFrame"
        /\ \E region_name \in RegionNames :
            \E made \in {generate_region_charts(df_reports, region_name)} :
                /\ last' = [op |-> "generate_region_charts",
                            region_name |-> region_name,
                            all_reports |-> df_reports,
                            ts |-> made.ts,
                            charts |-> made.charts,
                            raised |-> made.raised]
                /\ UNCHANGED <<reports_summary, reports_excel, GLOBAL_RAG_CONTEXT, model, rebuild>>

\* a call of _load_recent_summary_data(REPORTS_DIR_SUMMARY, weeks)
LoadRecentSummaryData ==
    \E weeks \in 1..MaxWeeks :
        \E out \in {_load_recent_summary_data(reports_summary, weeks)} :
        /\ last' = [op |-> "_load_recent_summary_data",
                    weeks |-> weeks,
                    out |-> out]
        /\ UNCHANGED <<reports_summary, reports_excel, GLOBAL_RAG_CONTEXT, model, rebuild>>

-----------------------------------------------------------------------------
(* The pipeline over the summary directory *)

Init ==
    /\ reports_summary = {}
    /\ reports_excel = {}
    /\ GLOBAL_RAG_CONTEXT = Placeholder
    /\ model = "gemini"
    /\ rebuild = NoRebuild
    /\ last = [op |-> "start"]

WriteAnySummaryFile == WriteSummaryFile(SummaryCatalog)

Next ==
    \/ WriteAnySummaryFile
    \/ AggregateReports
    \/ GenerateRegionCharts
    \/ LoadRecentSummaryData

Spec == Init /\ [][Next]_vars
-----------------------------------------------------------------------------
(* Properties of the pipeline over the summary directory.  The sums they     *)
(* compare with are computed from the corpus rows, or from the cells of the  *)
(* files as they are on disk, not by the definitions above.                  *)

\* the sum of value[x] over the members x of S, each member once
RECURSIVE SumOver(_, _)
SumOver(S, value) ==
    IF S = {} THEN 0
    ELSE LET x == CHOOSE y \in S : TRUE
         IN  value[x] + SumOver(S \ {x}, value)

Min(a, b) == IF a < b THEN a ELSE b

\* the weeks a frame has rows for
DatesOf(df) == {CellAt(df, r, COL_WEEK).n : r \in 1..Len(df.rows)}

\* how many rows of df are equal to row
CountOf(df, row) == Cardinality({r \in 1..Len(df.rows) : df.rows[r] = row})

\* the entry of a series for week d, column c
SeriesValue(ts, d, c) ==
    CellAt(ts, CHOOSE r \in 1..Len(ts.rows) : ts.rows[r][1] = Date(d), c)

\* the rows of the corpus of week d whose group is one of members
MemberRows(corpus, d, members) ==
    {r \in 1..Len(corpus.rows) :
        /\ CellAt(corpus, r, COL_WEEK) = Date(d)
        /\ \E k \in 1..Len(members) : CellAt(corpus, r, COL_GROUP) = Str(members[k])}

\* a label that is a pre-summed total
IsTotalLabel(cell) ==
    cell.t = "str" /\ (Contains(OVERALL, cell.s) \/ Contains(SUBTOTAL, cell.s))

\* the position of the column of a sheet whose name, blanks apart, is c (0: none)
SheetColumn(f, c) ==
    IF \E j \in 1..Len(f.sheet.columns) : Strip(f.sheet.columns[j]) = c
    THEN CHOOSE j \in 1..Len(f.sheet.columns) : Strip(f.sheet.columns[j]) = c
    ELSE 0

\* a file with a defect that makes its report unusable
Defective(f) ==
    \/ parse_week_end_date_from_filename(f.name) = NoDate
    \/ ~f.readable
    \/ SheetColumn(f, COL_GROUP) = 0

\* the report files of a directory that are usable
UsableFiles(dir) == {f \in dir : Contains(XLS, f.name) /\ ~Defective(f)}

\* the rows on disk, as <<file, row number>>, of week d that are not totals
SourceRows(dir, d) ==
    UNION {{<<f, r>> : r \in {q \in 1..Len(f.sheet.rows) :
                                ~IsTotalLabel(f.sheet.rows[q][SheetColumn(f, COL_GROUP)])}} :
           f \in {g \in UsableFiles(dir) : parse_week_end_date_from_filename(g.name) = d}}

\* the number a cell on disk stands for in column c: 0 when the sheet has no
\* such column or the cell holds no number
SourceValue(x, c) ==
    IF SheetColumn(x[1], c) = 0 THEN 0
    ELSE CellValue(ToNumeric(x[1].sheet.rows[x[2]][SheetColumn(x[1], c)]))

\* every row of the usable files of the directory is a total
AllTotals(dir) ==
    \A f \in UsableFiles(dir) : SourceRows(dir, parse_week_end_date_from_filename(f.name)) = {}

Metrics == {NUMERIC_COLUMNS_CANDIDATES[i] : i \in 1..Len(NUMERIC_COLUMNS_CANDIDATES)}

\* C1: for a configured cluster name, the series has an entry exactly for the
\* weeks in which the corpus has a row of a member group, and its value for
\* every metric of the corpus is the sum of that metric over exactly the corpus
\* rows of that week whose group is a member of the cluster, each row once; no
\* such row carries a total label.
C1_ClusterSum ==
    (last.op = "generate_region_charts" /\ last.region_name \in DOMAIN REGION_MAPPING) =>
        LET corpus == last.all_reports
            members == REGION_MAPPING[last.region_name]
            weeks == {d \in DatesOf(corpus) : MemberRows(corpus, d, members) # {}}
            value(d, m) == SumOver(MemberRows(corpus, d, members),
                                   [r \in 1..Len(corpus.rows) |-> CellValue(CellAt(corpus, r, m))])
        IN  /\ ~last.raised
            /\ DatesOf(last.ts) = weeks
            /\ Len(last.ts.rows) = Cardinality(weeks)
            /\ \A d \in weeks :
                /\ \A m \in Metrics :
                    HasColumn(corpus, m) =>
                        /\ HasColumn(last.ts, m)
                        /\ SeriesValue(last.ts, d, m) = Num(value(d, m))
                /\ \A r \in MemberRows(corpus, d, members) :
                    ~IsTotalLabel(CellAt(corpus, r, COL_GROUP))

\* C1 happens: a cluster series sums two member rows of one week while the
\* corpus holds a row of another cluster in that week and the file held a total
C1_Witness ==
    /\ last.op = "generate_region_charts"
    /\ last.region_name \in DOMAIN REGION_MAPPING
    /\ \E d \in DatesOf(last.all_reports) :
        /\ Cardinality(MemberRows(last.all_reports, d, REGION_MAPPING[last.region_name])) >= 2
        /\ \E r \in 1..Len(last.all_reports.rows) :
            /\ CellAt(last.all_reports, r, COL_WEEK) = Date(d)
            /\ r \notin MemberRows(last.all_reports, d, REGION_MAPPING[last.region_name])
            /\ CellValue(CellAt(last.all_reports, r, M_SUNDAY)) > 0
        /\ CellValue(SeriesValue(last.ts, d, M_SUNDAY)) > 0
        /\ \E f \in reports_summary : \E q \in 1..Len(f.sheet.rows) :
            /\ parse_week_end_date_from_filename(f.name) = d
            /\ IsTotalLabel(f.sheet.rows[q][1])

\* C2: for the overall name, the series has an entry exactly for the weeks of
\* which the usable files hold a row that is not a total, and its value for
\* every metric is the sum of the metric over all those rows of the files; the
\* rows labelled as totals in the files add nothing.
C2_OverallSum ==
    (last.op = "generate_region_charts" /\ last.region_name = OVERALL) =>
        LET weeks == {d \in {parse_week_end_date_from_filename(f.name) : f \in UsableFiles(reports_summary)} :
                        SourceRows(reports_summary, d) # {}}
        IN  /\ ~last.raised
            /\ DatesOf(last.ts) = weeks
            /\ Len(last.ts.rows) = Cardinality(weeks)
            /\ \A d \in weeks : \A m \in Metrics :
                IF HasColumn(last.ts, m)
                THEN SeriesValue(last.ts, d, m)
                        = Num(SumOver(SourceRows(reports_summary, d),
                                      [x \in SourceRows(reports_summary, d) |-> SourceValue(x, m)]))
                ELSE \A x \in SourceRows(reports_summary, d) : SourceValue(x, m) = 0

\* C2 happens: the overall series has a positive entry for a week whose file
\* holds a total row with a positive number
C2_Witness ==
    /\ last.op = "generate_region_charts"
    /\ last.region_name = OVERALL
    /\ \E f \in UsableFiles(reports_summary) : \E q \in 1..Len(f.sheet.rows) :
        /\ IsTotalLabel(f.sheet.rows[q][SheetColumn(f, COL_GROUP)])
        /\ CellValue(f.sheet.rows[q][SheetColumn(f, M_SUNDAY)]) > 0
        /\ parse_week_end_date_from_filename(f.name) \in DatesOf(last.ts)
        /\ CellValue(SeriesValue(last.ts, parse_week_end_date_from_filename(f.name), M_SUNDAY)) > 0

\* a name that is not the overall name, not a cluster, and no group of the corpus
Unrecognized(corpus, name) ==
    /\ name # OVERALL
    /\ name \notin DOMAIN REGION_MAPPING
    /\ \A r \in 1..Len(corpus.rows) : CellAt(corpus, r, COL_GROUP) # Str(name)

\* C3: for a name that is neither the overall name, nor a cluster, nor the
\* group of a corpus row, build_region_timeseries gives the empty series and
\* generate_region_charts returns without raising and without a chart.
C3_UnrecognizedName ==
    (last.op = "generate_region_charts" /\ Unrecognized(last.all_reports, last.region_name)) =>
        /\ last.ts = EmptyFrame
        /\ ~last.raised
        /\ last.charts = {}

\* C3 happens: an unrecognized name is asked of a corpus that has rows
C3_Witness ==
    /\ last.op = "generate_region_charts"
    /\ Unrecognized(last.all_reports, last.region_name)
    /\ ~IsEmpty(last.all_reports)
    /\ last.ts = EmptyFrame

\* C4: on a corpus with rows, _load_recent_summary_data keeps min(N, number of
\* distinct weeks) weeks, they are the most recent ones, the result holds every
\* corpus row of those weeks as often as the corpus and no other row, and its
\* rows are in ascending order of the week.
C4_RecencyWindow ==
    last.op = "_load_recent_summary_data" =>
        \A corpus \in {aggregate_reports(reports_summary)} :
            (corpus.kind = "DataFrame" /\ ~IsEmpty(corpus)) =>
                LET all == DatesOf(corpus)
                    kept == DatesOf(last.out)
                IN  /\ last.out.kind = "DataFrame"
                    /\ last.out.columns = corpus.columns
                    /\ kept \subseteq all
                    /\ Cardinality(kept) = Min(last.weeks, Cardinality(all))
                    /\ \A d \in kept : \A e \in all \ kept : e < d
                    /\ \A r \in 1..Len(corpus.rows) :
                        CountOf(last.out, corpus.rows[r])
                            = IF CellAt(corpus, r, COL_WEEK).n \in kept
                              THEN CountOf(corpus, corpus.rows[r]) ELSE 0
                    /\ \A r \in 1..Len(last.out.rows) : CountOf(corpus, last.out.rows[r]) > 0
                    /\ \A r \in 1..(Len(last.out.rows) - 1) :
                        CellAt(last.out, r, COL_WEEK).n <= CellAt(last.out, r + 1, COL_WEEK).n

\* C4 happens: the window is smaller than the number of weeks of the corpus,
\* so a week is cut off, and the result holds several weeks
C4_Witness ==
    /\ last.op = "_load_recent_summary_data"
    /\ last.out.kind = "DataFrame"
    /\ Cardinality(DatesOf(last.out)) = 2
    /\ last.weeks = 2
    /\ Cardinality(DatesOf(aggregate_reports(reports_summary))) = 3

\* C9: a defective file (no date in its name, unreadable, or without the
\* group column) leaves the corpus equal to the corpus of the other files,
\* and aggregate_reports does not fail when another file is usable.
C9_SkipIsolation ==
    last.op = "aggregate_reports" =>
        \A f \in reports_summary :
            (Defective(f) /\ UsableFiles(reports_summary \ {f}) # {}) =>
                /\ last.out.kind = "DataFrame"
                /\ last.out = aggregate_reports(reports_summary \ {f})

\* C9 happens: the directory holds a defective report file next to a usable
\* one with rows, and the corpus is returned
C9_Witness ==
    /\ last.op = "aggregate_reports"
    /\ \E f \in GlobXls(reports_summary) : Defective(f)
    /\ UsableFiles(reports_summary) # {}
    /\ last.out.kind = "DataFrame"
    /\ ~IsEmpty(last.out)

\* C10 as stated: aggregate_reports fails when the directory holds no report
\* file, when no file is usable, and when no row survives the removal of the
\* totals; it never returns an empty corpus.
C10_Original ==
    last.op = "aggregate_reports" =>
        /\ GlobXls(reports_summary) = {} => last.out.kind = "RuntimeError"
        /\ UsableFiles(reports_summary) = {} => last.out.kind = "RuntimeError"
        /\ AllTotals(reports_summary) => last.out.kind = "RuntimeError"
        /\ last.out.kind = "DataFrame" => ~IsEmpty(last.out)

\* C10, amended: aggregate_reports fails exactly when the directory holds no
\* report file or no file is usable; when usable files exist and every row of
\* them is a total, it returns a corpus without rows and does not fail.
C10_FailsOnlyWithoutUsableFile ==
    last.op = "aggregate_reports" =>
        /\ last.out.kind = "RuntimeError" <=> UsableFiles(reports_summary) = {}
        /\ last.out.kind \in {"RuntimeError", "DataFrame"}
        /\ UsableFiles(reports_summary) # {} =>
                (last.out.rows = <<>> <=> AllTotals(reports_summary))

\* C10 happens: every row of the usable files is a total and the corpus
\* returned has no rows
C10_Witness ==
    /\ last.op = "aggregate_reports"
    /\ UsableFiles(reports_summary) # {}
    /\ AllTotals(reports_summary)
    /\ last.out.kind = "DataFrame"
    /\ last.out.rows = <<>>
-----------------------------------------------------------------------------
(* The personal-detail filter *)

COL_NAME == <<"xing", "ming">>
COL_DATE == <<"ri", "qi">>
ATTEND_PREFIX == <<"a", "t", "t", "e", "n", "d", "_">>

\* attendance_cols of _load_filtered_raw_personal_data
ATTENDANCE_COLS == <<M_SUNDAY, M_PRAYER, M_GROUP, M_MORNING>>

\* the files glob.glob(os.path.join(dir, "attend_*.xls*")) lists
GlobAttend(dir) ==
    {f \in dir : /\ StartsWith(f.name, ATTEND_PREFIX)
                 /\ Contains(<<".", "x", "l", "s">>,
                             SubSeq(f.name, Len(ATTEND_PREFIX) + 1, Len(f.name)))}

\* the orders in which glob.glob may list the files: the order of the
\* directory listing, which nothing sorts
GlobOrders(files) ==
    {order \in [1..Cardinality(files) -> files] :
        \A i, j \in 1..Cardinality(files) : order[i] = order[j] => i = j}

\* file_info.sort(key=date, reverse=True): newest first, ties in listing order
FileDateAfter(a, b) == a.dt > b.dt

\* recent_files: the first `weeks` of the dated files, newest first, each
\* with its date
RecentFiles(file_paths, weeks) ==
    LetIn([i \in 1..Len(file_paths) |->
            [dt |-> parse_week_end_date_from_filename(file_paths[i].name), f |-> file_paths[i]]],
          LAMBDA parsed :
    LetIn(KeepIdx(parsed, {i \in 1..Len(parsed) : parsed[i].dt # NoDate}), LAMBDA file_info :
    LetIn(StableSort(file_info, FileDateAfter), LAMBDA sorted :
        SubSeq(sorted, 1, IF Len(sorted) < weeks THEN Len(sorted) ELSE weeks))))

\* temp_df of one file once its headers are stripped: the name, the group, the
\* attendance columns it has (coerced), those it lacks (as 0), and the date
PersonalFrame(df, dt) ==
    LetIn(KeepIdx(ATTENDANCE_COLS, {i \in 1..Len(ATTENDANCE_COLS) : HasColumn(df, ATTENDANCE_COLS[i])}),
          LAMBDA present :
    LetIn(KeepIdx(ATTENDANCE_COLS, {i \in 1..Len(ATTENDANCE_COLS) : ~HasColumn(df, ATTENDANCE_COLS[i])}),
          LAMBDA absent :
        DataFrame(<<COL_NAME, COL_GROUP>> \o present \o absent \o <<COL_DATE>>,
            [r \in 1..Len(df.rows) |->
                <<CellAt(df, r, COL_NAME), CellAt(df, r, COL_GROUP)>>
                \o [j \in 1..Len(present) |-> CoerceCell(CellAt(df, r, present[j]))]
                \o [j \in 1..Len(absent) |-> Num(0)]
                \o <<Str(StrftimeSlash(dt))>>])))

\* the body of the loop over recent_files for one file: its frame, or None
\* when the file is passed over (it does not open, it has no name column, or
\* selecting the group column raises KeyError, which the loop catches)
ReadPersonalFile(dt, file) ==
    IF ~file.readable THEN None
    ELSE LetIn([file.sheet EXCEPT !.columns =
                    [i \in 1..Len(file.sheet.columns) |-> Strip(file.sheet.columns[i])]], LAMBDA df :
            IF ~HasColumn(df, COL_NAME) THEN None
            ELSE IF ~HasColumn(df, COL_GROUP) THEN None
            ELSE PersonalFrame(df, dt))

\* df_total: the rows of the retained files, or None where the function
\* returns None before it has them
PersonalWindow(file_paths, weeks) ==
    IF file_paths = <<>> THEN None
    ELSE LetIn(RecentFiles(file_paths, weeks), LAMBDA recent_files :
         LetIn([i \in 1..Len(recent_files) |->
                    ReadPersonalFile(recent_files[i].dt, recent_files[i].f)], LAMBDA frames :
         LetIn(KeepIdx(frames, {i \in 1..Len(frames) : frames[i].kind # "None"}), LAMBDA all_data :
            IF all_data = <<>> THEN None ELSE Concat(all_data))))

\* the sum of the attendance columns of row r
FlagSum(df, r) ==
    SeqSum([j \in 1..Len(ATTENDANCE_COLS) |-> CellValue(CellAt(df, r, ATTENDANCE_COLS[j]))])

\* df_total.groupby(COL_NAME)[attendance_cols].transform('sum').sum(axis=1) at
\* row r: the flags of all rows with the name of row r; groupby leaves out the
\* rows without a name, whose sum is then 0
person_sum(df_total, r) ==
    IF CellAt(df_total, r, COL_NAME).t = "nan" THEN 0
    ELSE SeqSum([q \in 1..Len(df_total.rows) |->
            IF CellAt(df_total, q, COL_NAME) = CellAt(df_total, r, COL_NAME)
            THEN FlagSum(df_total, q) ELSE 0])

\* sort_values([COL_DATE, COL_GROUP], ascending=[False, True]): an empty
\* group goes last
PersonalRowLess(a, b) ==
    \/ TextLess(b[1].s, a[1].s)
    \/ /\ a[1].s = b[1].s
       /\ \/ a[2].t = "str" /\ b[2].t = "str" /\ TextLess(a[2].s, b[2].s)
          \/ a[2].t = "str" /\ b[2].t # "str"

PERSONAL_COLUMNS == <<COL_DATE, COL_GROUP, COL_NAME>> \o ATTENDANCE_COLS

\* the rows of df_total of people with a positive sum, columns and order as returned
FilterPersonal(df_total) ==
    LetIn([df_total EXCEPT !.rows = KeepIdx(df_total.rows,
                {r \in 1..Len(df_total.rows) : person_sum(df_total, r) > 0})], LAMBDA df_filtered :
    LetIn(SelectColumns(df_filtered, PERSONAL_COLUMNS), LAMBDA selected :
        [selected EXCEPT !.rows = StableSort(selected.rows, PersonalRowLess)]))

\* _load_filtered_raw_personal_data, given what glob.glob lists: what it
\* returns (out), and the df_total it filtered
_load_filtered_raw_personal_data(file_paths, weeks) ==
    LetIn(PersonalWindow(file_paths, weeks), LAMBDA df_total :
        [df_total |-> df_total,
         out |-> IF df_total.kind = "None" THEN None ELSE FilterPersonal(df_total)])
-----------------------------------------------------------------------------
(* The files the personal-detail directory may hold *)

WANG == <<"wang", "yi">>
LI == <<"li", "er">>
CHEN == <<"chen", "san">>

\* week 1: two people of one name in two groups, of whom one attended; one
\* person who attended and one who did not
P_W1 ==
    ExcelFile(ATTEND_PREFIX \o D_1130 \o XLSX, TRUE,
        <<COL_NAME, COL_GROUP, M_SUNDAY, M_PRAYER, M_GROUP, M_MORNING>>,
        <<  <<Str(WANG), Str(G_HS1), Num(0), Num(0), Num(0), Num(0)>>,
            <<Str(WANG), Str(G_YA1), Num(1), Num(0), Num(0), Num(0)>>,
            <<Str(LI), Str(G_HS1), Num(1), Num(1), Num(0), Num(0)>>,
            <<Str(CHEN), Str(G_HS2), Num(0), Num(0), Num(0), Num(0)>> >>)

\* week 2: a header with a blank, one attendance column, a row without a name
P_W2 ==
    ExcelFile(ATTEND_PREFIX \o D_1207 \o XLSX, TRUE,
        << <<" ">> \o COL_NAME, COL_GROUP, M_SUNDAY>>,
        <<  <<Str(LI), Str(G_HS1), Num(0)>>,
            <<Str(CHEN), Str(G_HS2), Num(0)>>,
            <<NaN, Str(G_HS2), Num(1)>> >>)

\* week 3: a flag written as text
P_W3 ==
    ExcelFile(ATTEND_PREFIX \o D_1214 \o XLSX, TRUE,
        <<COL_NAME, COL_GROUP, M_SUNDAY, M_MORNING>>,
        <<  <<Str(LI), Str(G_HS1), Str(<<"1">>), Num(0)>>,
            <<Str(CHEN), Str(G_HS2), Num(0), Num(1)>> >>)

\* a second file of week 3
P_W3B ==
    ExcelFile(ATTEND_PREFIX \o D_1214 \o <<"(", "1", ")">> \o XLSX, TRUE,
        <<COL_NAME, COL_GROUP, M_SUNDAY>>,
        <<  <<Str(CHEN), Str(G_HS2), Num(0)>> >>)

\* no name column
P_NONAME ==
    ExcelFile(ATTEND_PREFIX \o D_1221 \o XLSX, TRUE,
        <<COL_GROUP, M_SUNDAY>>,
        <<  <<Str(G_HS1), Num(1)>> >>)

\* no group column
P_NOGROUP ==
    ExcelFile(ATTEND_PREFIX \o D_1228 \o XLSX, TRUE,
        <<COL_NAME, M_SUNDAY>>,
        <<  <<Str(LI), Num(1)>> >>)

\* a file that does not open
P_UNREADABLE ==
    ExcelFile(ATTEND_PREFIX \o D_1123 \o XLSX, FALSE,
        <<COL_NAME, COL_GROUP, M_SUNDAY>>,
        <<  <<Str(LI), Str(G_HS1), Num(1)>> >>)

\* no date in the name
P_NODATE ==
    ExcelFile(ATTEND_PREFIX \o NOTES \o XLSX, TRUE,
        <<COL_NAME, COL_GROUP, M_SUNDAY>>,
        <<  <<Str(LI), Str(G_HS1), Num(1)>> >>)

\* a name the glob does not match
P_OTHER ==
    ExcelFile(SUMMARY_PREFIX \o D_1207 \o XLSX, TRUE,
        <<COL_NAME, COL_GROUP, M_SUNDAY>>,
        <<  <<Str(LI), Str(G_HS1), Num(1)>> >>)

PersonalCatalog ==
    {P_W1, P_W2, P_W3, P_W3B, P_NONAME, P_NOGROUP, P_UNREADABLE, P_NODATE, P_OTHER}

-----------------------------------------------------------------------------
(* Operations on the personal-detail directory *)

\* church_api.main() saves a personal-detail file
WritePersonalFile(catalog) ==
    \E f \in catalog \ reports_excel :
        /\ Cardinality(reports_excel) < MaxPersonalFiles
        /\ reports_excel' = reports_excel \cup {f}
        /\ last' = [op |-> "write_personal"]
        /\ UNCHANGED <<reports_summary, GLOBAL_RAG_CONTEXT, model, rebuild>>

\* a call of _load_filtered_raw_personal_data(REPORTS_DIR_EXCEL, weeks)
LoadFilteredRawPersonalData ==
    \E weeks \in 1..MaxWeeks :
        \E file_paths \in GlobOrders(GlobAttend(reports_excel)) :
            \E call \in {_load_filtered_raw_personal_data(file_paths, weeks)} :
                /\ last' = [op |-> "_load_filtered_raw_personal_data",
                            weeks |-> weeks,
                            df_total |-> call.df_total,
                            out |-> call.out]
                /\ UNCHANGED <<reports_summary, reports_excel, GLOBAL_RAG_CONTEXT, model, rebuild>>

WriteAnyPersonalFile == WritePersonalFile(PersonalCatalog)

NextPersonal ==
    \/ WriteAnyPersonalFile
    \/ LoadFilteredRawPersonalData

SpecPersonal == Init /\ [][NextPersonal]_vars

-----------------------------------------------------------------------------
(* Properties of the personal-detail filter *)

\* the rows of df that belong to the person of row r: the name and the group
RowsOfPerson(df, r) ==
    {q \in 1..Len(df.rows) :
        /\ CellAt(df, q, COL_NAME) = CellAt(df, r, COL_NAME)
        /\ CellAt(df, q, COL_GROUP) = CellAt(df, r, COL_GROUP)}

\* row r of df_total as a row of the table returned
AsReturned(df_total, r) == [j \in 1..Len(PERSONAL_COLUMNS) |-> CellAt(df_total, r, PERSONAL_COLUMNS[j])]

\* C5 as stated: of every named person (a name within a group) of the retained
\* window, no row is in the table returned when the person's flags over the
\* window sum to zero, and every row of the window is in it when the sum is
\* positive.
C5_Original ==
    (last.op = "_load_filtered_raw_personal_data" /\ last.df_total.kind = "DataFrame") =>
        \A r \in 1..Len(last.df_total.rows) :
            CellAt(last.df_total, r, COL_NAME).t = "str" =>
                LET person == RowsOfPerson(last.df_total, r)
                    flags == SumOver(person, [q \in person |-> FlagSum(last.df_total, q)])
                    kept == {q \in 1..Len(last.out.rows) :
                                /\ CellAt(last.out, q, COL_NAME) = CellAt(last.df_total, r, COL_NAME)
                                /\ CellAt(last.out, q, COL_GROUP) = CellAt(last.df_total, r, COL_GROUP)}
                IN  IF flags = 0 THEN kept = {}
                    ELSE \A q \in person :
                            Cardinality({k \in kept : last.out.rows[k] = AsReturned(last.df_total, q)})
                                = Cardinality({k \in person :
                                    AsReturned(last.df_total, k) = AsReturned(last.df_total, q)})
-----------------------------------------------------------------------------
(* The RAG context and its cache.  A context text is the sequence of its     *)
(* parts: a line of fixed text, or a table written as markdown.              *)

\* _generate_rag_context asks both loaders for five weeks
RAG_WEEKS == 5

\* df.to_markdown(index=False)
Markdown(df) == [text |-> "markdown", table |-> df]

\* a variant that leaves the personal block out without a word when there
\* is no personal table
_generate_rag_context_silent(reports_dir_summary, file_paths, markdown_ok) ==
    LetIn(_load_recent_summary_data(reports_dir_summary, RAG_WEEKS), LAMBDA df_summary :
    LetIn(_load_filtered_raw_personal_data(file_paths, RAG_WEEKS).out, LAMBDA df_personal :
        IF ~markdown_ok /\ (df_summary.kind # "None" \/ df_personal.kind # "None")
        THEN [raised |-> TRUE, context |-> <<>>]
        ELSE [raised |-> FALSE,
              context |->
                (IF df_summary.kind # "None"
                 THEN <<Line("### [1. summary]"), Line("summary note"), Markdown(df_summary)>>
                 ELSE <<>>)
                \o (IF df_personal.kind # "None"
                    THEN <<Line("### [2. personal]"), Line("personal note"), Markdown(df_personal)>>
                    ELSE <<>>)]))

\* _generate_rag_context, given what glob.glob lists in the personal
\* directory and whether to_markdown works (it raises ImportError without the
\* tabulate package): the text, or raised
_generate_rag_context(reports_dir_summary, file_paths, markdown_ok) ==
    LetIn(_load_recent_summary_data(reports_dir_summary, RAG_WEEKS), LAMBDA df_summary :
    LetIn(_load_filtered_raw_personal_data(file_paths, RAG_WEEKS).out, LAMBDA df_personal :
        IF ~markdown_ok /\ (df_summary.kind # "None" \/ df_personal.kind # "None")
        THEN [raised |-> TRUE, context |-> <<>>]
        ELSE [raised |-> FALSE,
              context |->
                (IF df_summary.kind # "None"
                 THEN <<Line("### [1. summary]"), Line("summary note"), Markdown(df_summary)>>
                 ELSE <<>>)
                \o (IF df_personal.kind # "None"
                    THEN <<Line("### [2. personal]"), Line("personal note"), Markdown(df_personal)>>
                    ELSE <<Line("### [warning] personal data unreadable")>>)]))

\* a variant that empties the cache when the build fails
update_global_rag_context_clearing(reports_dir_summary, file_paths, markdown_ok) ==
    LetIn(_generate_rag_context(reports_dir_summary, file_paths, markdown_ok), LAMBDA built :
        [GLOBAL_RAG_CONTEXT |-> IF built.raised THEN <<>> ELSE built.context,
         failed |-> built.raised,
         propagated |-> FALSE])

\* update_global_rag_context: the value GLOBAL_RAG_CONTEXT has after the call,
\* whether the build failed, and whether an exception left the call: the
\* assignment is the statement after the build inside the try, and
\* `except Exception` takes what the build raises
update_global_rag_context(reports_dir_summary, file_paths, markdown_ok) ==
    LetIn(_generate_rag_context(reports_dir_summary, file_paths, markdown_ok), LAMBDA built :
        [GLOBAL_RAG_CONTEXT |-> IF built.raised THEN GLOBAL_RAG_CONTEXT ELSE built.context,
         failed |-> built.raised,
         propagated |-> FALSE])

NoPrompt == [rag_context |-> <<>>, query |-> ""]

\* a variant without the check of the model, whose call then fails inside the try
generate_rag_response_unguarded(query, api_ok) ==
    [invoked |-> TRUE,
     full_prompt |-> [rag_context |-> GLOBAL_RAG_CONTEXT, query |-> query],
     reply |-> IF api_ok /\ model # "None" THEN "answer" ELSE "error: gemini api",
     GLOBAL_RAG_CONTEXT |-> GLOBAL_RAG_CONTEXT]

\* a variant that drops the cache back to the starting text when the call of
\* the model fails
generate_rag_response_resetting(query, api_ok) ==
    IF model = "None"
    THEN [invoked |-> FALSE, full_prompt |-> NoPrompt, reply |-> "error: rag not enabled",
          GLOBAL_RAG_CONTEXT |-> GLOBAL_RAG_CONTEXT]
    ELSE [invoked |-> TRUE,
          full_prompt |-> [rag_context |-> GLOBAL_RAG_CONTEXT, query |-> query],
          reply |-> IF api_ok THEN "answer" ELSE "error: gemini api",
          GLOBAL_RAG_CONTEXT |-> IF api_ok THEN GLOBAL_RAG_CONTEXT ELSE Placeholder]

\* generate_rag_response, given whether model.generate_content returns: whether
\* the model was called, the prompt it was called with, the text returned, and
\* the value GLOBAL_RAG_CONTEXT has after the call
generate_rag_response(query, api_ok) ==
    IF model = "None"
    THEN [invoked |-> FALSE, full_prompt |-> NoPrompt, reply |-> "error: rag not enabled",
          GLOBAL_RAG_CONTEXT |-> GLOBAL_RAG_CONTEXT]
    ELSE [invoked |-> TRUE,
          full_prompt |-> [rag_context |-> GLOBAL_RAG_CONTEXT, query |-> query],
          reply |-> IF api_ok THEN "answer" ELSE "error: gemini api",
          GLOBAL_RAG_CONTEXT |-> GLOBAL_RAG_CONTEXT]

-----------------------------------------------------------------------------
(* The cache with its callers *)

RagSummaryCatalog == {S_W1, S_NODATE}
RagPersonalCatalog == {P_W1, P_NONAME, P_NODATE, P_UNREADABLE}
Queries == {"who came", "trend"}

\* a call of update_global_rag_context(REPORTS_DIR_SUMMARY, REPORTS_DIR_EXCEL)
UpdateGlobalRagContext ==
    \E file_paths \in GlobOrders(GlobAttend(reports_excel)) :
        \E markdown_ok \in BOOLEAN :
            \E call \in {update_global_rag_context(reports_summary, file_paths, markdown_ok)} :
                /\ GLOBAL_RAG_CONTEXT' = call.GLOBAL_RAG_CONTEXT
                /\ last' = [op |-> "update_global_rag_context",
                            markdown_ok |-> markdown_ok,
                            failed |-> call.failed,
                            propagated |-> call.propagated]
                /\ UNCHANGED <<reports_summary, reports_excel, model, rebuild>>

\* a call of generate_rag_response(..., query) (bot_server.py, handle_message)
GenerateRagResponse ==
    \E query \in Queries :
        \E api_ok \in BOOLEAN :
            \E call \in {generate_rag_response(query, api_ok)} :
                /\ GLOBAL_RAG_CONTEXT' = call.GLOBAL_RAG_CONTEXT
                /\ last' = [op |-> "generate_rag_response",
                            query |-> query,
                            invoked |-> call.invoked,
                            full_prompt |-> call.full_prompt,
                            reply |-> call.reply]
                /\ UNCHANGED <<reports_summary, reports_excel, model, rebuild>>

WriteRagSummaryFile == WriteSummaryFile(RagSummaryCatalog)

WriteRagPersonalFile == WritePersonalFile(RagPersonalCatalog)

\* the module as imported: the model is there when the API key is
InitRag ==
    /\ reports_summary = {}
    /\ reports_excel = {}
    /\ GLOBAL_RAG_CONTEXT = Placeholder
    /\ model \in {"gemini", "None"}
    /\ rebuild = NoRebuild
    /\ last = [op |-> "start"]

NextRag ==
    \/ WriteRagSummaryFile
    \/ WriteRagPersonalFile
    \/ UpdateGlobalRagContext
    \/ GenerateRagResponse

SpecRag == InitRag /\ [][NextRag]_vars

-----------------------------------------------------------------------------
(* Properties of the cache *)

\* C6: a call of update_global_rag_context that fails leaves
\* GLOBAL_RAG_CONTEXT as it was before the call, and no exception leaves
\* the call.
C6_FailedRebuildKeepsSnapshot ==
    [][(last'.op = "update_global_rag_context" /\ last'.failed) =>
            (GLOBAL_RAG_CONTEXT' = GLOBAL_RAG_CONTEXT /\ ~last'.propagated)]_vars

\* C6 happens: a rebuild has failed after an earlier one had succeeded, and
\* the text of the earlier one is still cached
C6_Witness ==
    /\ last.op = "update_global_rag_context"
    /\ last.failed
    /\ GLOBAL_RAG_CONTEXT # Placeholder
    /\ Len(GLOBAL_RAG_CONTEXT) > 1

\* C7: GLOBAL_RAG_CONTEXT starts as the placeholder; it changes only in a call
\* of update_global_rag_context; a call of generate_rag_response, whatever its
\* outcome, leaves it as it is, and the prompt it gives the model holds exactly
\* the text cached at that moment.
C7_SnapshotChangesOnlyInRebuild ==
    /\ GLOBAL_RAG_CONTEXT = Placeholder
    /\ [][/\ GLOBAL_RAG_CONTEXT' # GLOBAL_RAG_CONTEXT => last'.op = "update_global_rag_context"
          /\ last'.op = "generate_rag_response" =>
                /\ GLOBAL_RAG_CONTEXT' = GLOBAL_RAG_CONTEXT
                /\ last'.invoked => last'.full_prompt.rag_context = GLOBAL_RAG_CONTEXT]_vars

\* C7 happens: a query whose call of the model failed was answered from a
\* cache that a rebuild had filled before the files changed again
C7_Witness ==
    /\ last.op = "generate_rag_response"
    /\ last.invoked
    /\ last.reply = "error: gemini api"
    /\ last.full_prompt.rag_context = GLOBAL_RAG_CONTEXT
    /\ GLOBAL_RAG_CONTEXT # Placeholder
    /\ \A file_paths \in GlobOrders(GlobAttend(reports_excel)) :
        _generate_rag_context(reports_summary, file_paths, TRUE).context # GLOBAL_RAG_CONTEXT

\* C8 as stated: a query answered while the cache still holds the placeholder
\* does not call the model and returns an error text.
C8_Original ==
    (last.op = "generate_rag_response" /\ GLOBAL_RAG_CONTEXT = Placeholder) =>
        (~last.invoked /\ last.reply = "error: rag not enabled")

\* C8, amended: the model is not called, and the error text is returned,
\* exactly when the model is not configured; a query answered while the cache
\* still holds the placeholder and the model is configured calls the model with
\* the placeholder as its context.
C8_ModelGuardOnly ==
    last.op = "generate_rag_response" =>
        /\ model = "None" => (~last.invoked /\ last.reply = "error: rag not enabled")
        /\ model # "None" =>
            /\ last.invoked
            /\ last.reply # "error: rag not enabled"
            /\ GLOBAL_RAG_CONTEXT = Placeholder => last.full_prompt.rag_context = Placeholder

\* C8 happens: a query is answered by the model while the cache holds the
\* placeholder
C8_Witness ==
    /\ last.op = "generate_rag_response"
    /\ GLOBAL_RAG_CONTEXT = Placeholder
    /\ model # "None"
    /\ last.invoked
    /\ last.full_prompt.rag_context = Placeholder
-----------------------------------------------------------------------------
(* Properties of the corpus *)

\* C11 as stated: the corpus aggregate_reports returns holds at most one row
\* for a group and a week.
C11_Original ==
    (last.op = "aggregate_reports" /\ last.out.kind = "DataFrame") =>
        \A r, q \in 1..Len(last.out.rows) :
            (/\ CellAt(last.out, r, COL_GROUP) = CellAt(last.out, q, COL_GROUP)
             /\ CellAt(last.out, r, COL_WEEK) = CellAt(last.out, q, COL_WEEK)) => r = q

\* C12 as stated: in every row of the corpus each of the seven metric columns
\* is there and holds a number that is not negative, never an empty cell.
C12_Original ==
    (last.op = "aggregate_reports" /\ last.out.kind = "DataFrame") =>
        \A m \in Metrics :
            /\ HasColumn(last.out, m)
            /\ \A r \in 1..Len(last.out.rows) :
                /\ CellAt(last.out, r, m).t = "num"
                /\ CellAt(last.out, r, m).n >= 0
-----------------------------------------------------------------------------
(* Properties of the context text *)

\* no file of the personal directory gives rows: each has no date in its
\* name, does not open, or has no name column (an empty directory included)
PersonalDataMissing ==
    \A f \in GlobAttend(reports_excel) :
        \/ parse_week_end_date_from_filename(f.name) = NoDate
        \/ ~f.readable
        \/ ~HasColumn(_clean_table_headers(f.sheet), COL_NAME)

\* the context text starts with the summary block
HasSummaryBlock(context) ==
    /\ Len(context) >= 3
    /\ context[1] = Line("### [1. summary]")
    /\ context[3].text = "markdown"

\* the context text ends with the warning that stands for the personal block
EndsWithWarning(context) ==
    /\ Len(context) >= 1
    /\ context[Len(context)] = Line("### [warning] personal data unreadable")

RowsOfWeekAndLabel(corpus, d, g) ==
    {r \in 1..Len(corpus.rows) :
        CellAt(corpus, r, COL_WEEK) = Date(d) /\ CellAt(corpus, r, COL_GROUP) = g}

\* the label on disk of a source row
SourceLabel(x) == x[1].sheet.rows[x[2]][SheetColumn(x[1], COL_GROUP)]

\* C14: every row of the corpus carries the date in the name of a usable file,
\* and for every such date and every label the corpus holds as many rows of
\* that date and label as the usable files named with that date hold rows of
\* that label that are not totals: the rows of a file carry the date of its
\* name and no other.
C14_RowsCarryFileDate ==
    (last.op = "aggregate_reports" /\ last.out.kind = "DataFrame") =>
        LET dates == {parse_week_end_date_from_filename(f.name) : f \in UsableFiles(reports_summary)}
        IN  /\ \A r \in 1..Len(last.out.rows) :
                /\ CellAt(last.out, r, COL_WEEK).t = "date"
                /\ CellAt(last.out, r, COL_WEEK).n \in dates
            /\ \A d \in dates :
                \A g \in {SourceLabel(x) : x \in SourceRows(reports_summary, d)}
                         \cup {CellAt(last.out, r, COL_GROUP) : r \in 1..Len(last.out.rows)} :
                    Cardinality(RowsOfWeekAndLabel(last.out, d, g))
                        = Cardinality({x \in SourceRows(reports_summary, d) : SourceLabel(x) = g})

\* C14 happens: the corpus is built from the file of week 2 and from a file of
\* week 3 whose sheet holds the date of week 2, and the rows of the latter are
\* in the corpus under week 3
C14_Witness ==
    /\ last.op = "aggregate_reports"
    /\ last.out.kind = "DataFrame"
    /\ {S_W2, S_W3B} \subseteq reports_summary
    /\ RowsOfWeekAndLabel(last.out, 20251214, Str(G_YA2)) # {}
    /\ RowsOfWeekAndLabel(last.out, 20251207, Str(G_YA2)) = {}
    /\ RowsOfWeekAndLabel(last.out, 20251207, Str(G_HS1)) # {}

\* the context text ends with the personal block
EndsWithPersonalBlock(context) ==
    /\ Len(context) >= 3
    /\ context[Len(context) - 2] = Line("### [2. personal]")
    /\ context[Len(context)].text = "markdown"

\* C15 as stated: the text a successful call of update_global_rag_context
\* caches holds both blocks: the summary block, then the personal block or the
\* warning line that stands for it.
C15_Original ==
    (last.op = "update_global_rag_context" /\ ~last.failed) =>
        /\ HasSummaryBlock(GLOBAL_RAG_CONTEXT)
        /\ Len(GLOBAL_RAG_CONTEXT) > 3
        /\ EndsWithPersonalBlock(GLOBAL_RAG_CONTEXT) \/ EndsWithWarning(GLOBAL_RAG_CONTEXT)
-----------------------------------------------------------------------------
(* Properties of the series *)

\* C16: the series build_region_timeseries returns has one entry for each
\* week that occurs in the rows the name resolves to and for no other week,
\* the entries in strictly ascending order of the week; a week of the corpus
\* in which the name has no row has no entry, and a name without rows has the
\* empty series.
C16_OneEntryPerWeekOfSubset ==
    (last.op = "generate_region_charts" /\ ~last.raised) =>
        LET subset == ResolveRegion(last.all_reports, last.region_name)
        IN  IF subset.rows = <<>> THEN last.ts = EmptyFrame
            ELSE /\ {last.ts.rows[i][1] : i \in 1..Len(last.ts.rows)}
                        = {Date(d) : d \in DatesOf(subset)}
                 /\ Len(last.ts.rows) = Cardinality(DatesOf(subset))
                 /\ \A i, j \in 1..Len(last.ts.rows) :
                        i < j => last.ts.rows[i][1].n < last.ts.rows[j][1].n
                 /\ \A d \in DatesOf(last.all_reports) \ DatesOf(subset) :
                        \A i \in 1..Len(last.ts.rows) : last.ts.rows[i][1] # Date(d)

\* C16 happens: the corpus holds three weeks, the name has rows in the first
\* two of them, and the series has two entries
C16_Witness ==
    /\ last.op = "generate_region_charts"
    /\ ~last.raised
    /\ Cardinality(DatesOf(last.all_reports)) = 3
    /\ Len(last.ts.rows) = 2
    /\ last.ts.rows[1][1] = Date(20251130)
    /\ last.ts.rows[2][1] = Date(20251207)
-----------------------------------------------------------------------------
(* Properties of the personal window *)

\* a personal file with a date in its name that opens and has the name and
\* the group column and at least one row
UsablePersonalFile(f) ==
    /\ parse_week_end_date_from_filename(f.name) # NoDate
    /\ f.readable
    /\ HasColumn(_clean_table_headers(f.sheet), COL_NAME)
    /\ HasColumn(_clean_table_headers(f.sheet), COL_GROUP)
    /\ f.sheet.rows # <<>>

\* C17 as stated: when every personal file is usable, the rows retained by
\* _load_filtered_raw_personal_data(dir, N) cover min(N, D) distinct dates,
\* D being the number of distinct dates in the names of the files, and they
\* are the most recent ones.
C17_Original ==
    (/\ last.op = "_load_filtered_raw_personal_data"
     /\ last.df_total.kind = "DataFrame"
     /\ \A f \in GlobAttend(reports_excel) : UsablePersonalFile(f)) =>
        LET dates == {parse_week_end_date_from_filename(f.name) : f \in GlobAttend(reports_excel)}
            covered == {CellAt(last.df_total, r, COL_DATE) : r \in 1..Len(last.df_total.rows)}
        IN  /\ Cardinality(covered) = Min(last.weeks, Cardinality(dates))
            /\ covered = {Str(StrftimeSlash(d)) : d \in MostRecent(dates, last.weeks)}
-----------------------------------------------------------------------------
(* Calls of update_global_rag_context that overlap.  A call is two steps:    *)
(* the build, into the local new_context, and the assignment of the global.  *)

\* a variant in which new_context is shared by the threads, not local to the
\* call: a call assigns what the other call has built
new_context_shared(t) ==
    IF \E o \in Threads \ {t} : rebuild[o].pc \in {"built", "done"} /\ ~rebuild[o].failed
    THEN rebuild[CHOOSE o \in Threads \ {t} :
                    rebuild[o].pc \in {"built", "done"} /\ ~rebuild[o].failed].new_context
    ELSE rebuild[t].new_context

\* the value the call of thread t assigns to GLOBAL_RAG_CONTEXT: its local
\* new_context
new_context(t) == rebuild[t].new_context

\* new_context = _generate_rag_context(...) in thread t; when the build
\* raises, the except clause ends the call
BuildContext(t) ==
    /\ rebuild[t].pc = "idle"
    /\ \E file_paths \in GlobOrders(GlobAttend(reports_excel)) :
        \E markdown_ok \in BOOLEAN :
            \E built \in {_generate_rag_context(reports_summary, file_paths, markdown_ok)} :
                /\ rebuild' = [rebuild EXCEPT ![t] =
                        [pc |-> IF built.raised THEN "done" ELSE "built",
                         new_context |-> built.context,
                         failed |-> built.raised,
                         wrote |-> 0]]
                /\ last' = [op |-> "build", thread |-> t, failed |-> built.raised]
    /\ UNCHANGED <<reports_summary, reports_excel, GLOBAL_RAG_CONTEXT, model>>

\* GLOBAL_RAG_CONTEXT = new_context in thread t, which ends the call
AssignContext(t) ==
    /\ rebuild[t].pc = "built"
    /\ GLOBAL_RAG_CONTEXT' = new_context(t)
    /\ rebuild' = [rebuild EXCEPT ![t].pc = "done",
                                  ![t].wrote = 1 + Cardinality({o \in Threads : rebuild[o].wrote > 0})]
    /\ last' = [op |-> "assign", thread |-> t]
    /\ UNCHANGED <<reports_summary, reports_excel, model>>

\* the files written while the calls run are those of one week
WriteOverlapSummaryFile == WriteSummaryFile({S_W1})

WriteOverlapPersonalFile == WritePersonalFile({P_W1})

NextOverlap ==
    \/ WriteOverlapSummaryFile
    \/ WriteOverlapPersonalFile
    \/ \E t \in Threads : BuildContext(t)
    \/ \E t \in Threads : AssignContext(t)
    \/ GenerateRagResponse

SpecOverlap == Init /\ [][NextOverlap]_vars

\* the threads whose call has assigned
Writers == {t \in Threads : rebuild[t].wrote > 0}

\* the texts the calls have built so far
BuiltContexts ==
    {rebuild[t].new_context : t \in {o \in Threads :
        rebuild[o].pc \in {"built", "done"} /\ ~rebuild[o].failed}}

\* C18: GLOBAL_RAG_CONTEXT is at every moment the placeholder or the whole
\* text built by one call that has assigned; once both calls have ended it is
\* the text of the call that assigned last (the placeholder when neither
\* assigned); and the context a query gives the model is the placeholder or
\* the whole text built by one of the calls.
C18_LastWriteWins ==
    /\ GLOBAL_RAG_CONTEXT \in {Placeholder} \cup {rebuild[t].new_context : t \in Writers}
    /\ (\A t \in Threads : rebuild[t].pc = "done") =>
            IF Writers = {} THEN GLOBAL_RAG_CONTEXT = Placeholder
            ELSE GLOBAL_RAG_CONTEXT =
                    rebuild[CHOOSE t \in Writers :
                                \A o \in Writers : rebuild[o].wrote <= rebuild[t].wrote].new_context
    /\ (last.op = "generate_rag_response" /\ last.invoked) =>
            last.full_prompt.rag_context \in {Placeholder} \cup BuiltContexts

\* C18 happens: the call of the main thread built its text while the
\* directories were empty, the call of the scheduler built and assigned a
\* text with the summary block, the main thread assigned after it, and a
\* query was then answered from the text of the main thread
C18_Witness ==
    /\ \A t \in Threads : rebuild[t].pc = "done"
    /\ rebuild["scheduler"].wrote = 1
    /\ rebuild["main"].wrote = 2
    /\ Len(rebuild["main"].new_context) = 1
    /\ HasSummaryBlock(rebuild["scheduler"].new_context)
    /\ GLOBAL_RAG_CONTEXT = rebuild["main"].new_context
    /\ last.op = "generate_rag_response"
    /\ last.invoked
    /\ last.full_prompt.rag_context = rebuild["main"].new_context
-----------------------------------------------------------------------------
(* The triggers of a rebuild: the scheduled job and the update command *)

\* what a run of app.main may fetch: nothing (no token, or no members in the
\* answer), or the week whose two files (S_W1, P_W1) it then writes
Fetches == {"nothing", "week"}

\* church_api.main called with the keyword arguments given: app.main takes
\* no parameter, so a call with a keyword raises TypeError before its body
\* runs; else the run writes the files of the week it fetched.  The value is
\* the directories after the call and whether it raised.
church_api_main(keywords, fetched) ==
    IF keywords # {}
    THEN [raised |-> TRUE, reports_summary |-> reports_summary, reports_excel |-> reports_excel]
    ELSE IF fetched = "week"
         THEN [raised |-> FALSE,
               reports_summary |-> reports_summary \cup {S_W1},
               reports_excel |-> reports_excel \cup {P_W1}]
         ELSE [raised |-> FALSE, reports_summary |-> reports_summary, reports_excel |-> reports_excel]

\* the scheduled job auto_update_and_push: church_api.main(), then
\* update_global_rag_context; what follows (the charts and the push) changes
\* nothing of the state modelled, and the try of the job takes what it raises
AutoUpdateAndPush ==
    \E fetched \in Fetches :
        \E refreshed \in {church_api_main({}, fetched)} :
            /\ Cardinality(refreshed.reports_summary) <= MaxSummaryFiles
            /\ Cardinality(refreshed.reports_excel) <= MaxPersonalFiles
            /\ \E file_paths \in GlobOrders(GlobAttend(refreshed.reports_excel)) :
                \E markdown_ok \in BOOLEAN :
                    \E call \in {update_global_rag_context(refreshed.reports_summary,
                                                           file_paths, markdown_ok)} :
                        /\ reports_summary' = refreshed.reports_summary
                        /\ reports_excel' = refreshed.reports_excel
                        /\ GLOBAL_RAG_CONTEXT' = call.GLOBAL_RAG_CONTEXT
                        /\ last' = [op |-> "auto_update_and_push",
                                    refresh_raised |-> refreshed.raised,
                                    rebuild_called |-> TRUE,
                                    rebuild_failed |-> call.failed,
                                    reply |-> "pushed"]
                        /\ UNCHANGED <<model, rebuild>>

\* the dates an update command may name (none, or a date)
TargetDates == {"None", "2025-11-30"}

\* handle_message for a message with the update command: church_api.main is
\* called with target_date as a keyword, then update_global_rag_context; the
\* try around both answers an exception with the failure text
HandleMessageUpdate ==
    \E target_date \in TargetDates :
        \E fetched \in Fetches :
            \E refreshed \in {church_api_main({"target_date"}, fetched)} :
                IF refreshed.raised
                THEN /\ last' = [op |-> "handle_message",
                                 refresh_raised |-> TRUE,
                                 rebuild_called |-> FALSE,
                                 rebuild_failed |-> FALSE,
                                 reply |-> "update failed"]
                     /\ UNCHANGED <<reports_summary, reports_excel, GLOBAL_RAG_CONTEXT, model, rebuild>>
                ELSE /\ Cardinality(refreshed.reports_summary) <= MaxSummaryFiles
                     /\ Cardinality(refreshed.reports_excel) <= MaxPersonalFiles
                     /\ \E file_paths \in GlobOrders(GlobAttend(refreshed.reports_excel)) :
                         \E markdown_ok \in BOOLEAN :
                            \E call \in {update_global_rag_context(refreshed.reports_summary,
                                                                   file_paths, markdown_ok)} :
                                /\ reports_summary' = refreshed.reports_summary
                                /\ reports_excel' = refreshed.reports_excel
                                /\ GLOBAL_RAG_CONTEXT' = call.GLOBAL_RAG_CONTEXT
                                /\ last' = [op |-> "handle_message",
                                            refresh_raised |-> FALSE,
                                            rebuild_called |-> TRUE,
                                            rebuild_failed |-> call.failed,
                                            reply |-> "update done"]
                                /\ UNCHANGED <<model, rebuild>>

NextTriggers ==
    \/ WriteRagSummaryFile
    \/ WriteRagPersonalFile
    \/ AutoUpdateAndPush
    \/ HandleMessageUpdate
    \/ GenerateRagResponse

SpecTriggers == Init /\ [][NextTriggers]_vars

\* both directories hold a file that gives rows
ReadableReportFiles ==
    /\ UsableFiles(reports_summary) # {}
    /\ \E f \in GlobAttend(reports_excel) : UsablePersonalFile(f)

\* C19 as stated: when the scheduled job or the update command has completed
\* with readable report files, update_global_rag_context was called after the
\* refresh and GLOBAL_RAG_CONTEXT holds a text built from the files, not the
\* placeholder.
C19_Original ==
    (last.op \in {"auto_update_and_push", "handle_message"} /\ ReadableReportFiles) =>
        /\ last.rebuild_called
        /\ ~last.rebuild_failed =>
            /\ GLOBAL_RAG_CONTEXT # Placeholder
            /\ \E file_paths \in GlobOrders(GlobAttend(reports_excel)) :
                GLOBAL_RAG_CONTEXT = _generate_rag_context(reports_summary, file_paths, TRUE).context
====
